---- MODULE Spec2Model ----
(***************************************************************************)
(* Survey encoder (create_clean_csv.py), result interpretation             *)
(* (analysis_2_spearman.py) and the analysis scripts that read the clean   *)
(* table (analysis_1_descriptives.py, analysis_2_spearman.py,              *)
(* analysis_3_kruskal_fisher.py, analysis_final.py,                        *)
(* analysis_focused_proof.py) as a state machine.                          *)
(*                                                                         *)
(* A Python str is a sequence of characters; a character is a one-element  *)
(* TLA+ string, except for the two non-ASCII characters the program meets, *)
(* which are named.  An optional integer (int or None) is a sequence of    *)
(* length at most one: None is <<>> and the integer v is <<v>>.            *)
(***************************************************************************)
EXTENDS Integers, Sequences, FiniteSets, TLC

VARIABLES raw, pos, rows_out, pc, out, error, written, call, ret,
          df, script, apc, trace, aerror

vars ==
    <<raw, pos, rows_out, pc, out, error, written, call, ret, df, script, apc, trace, aerror>>

encoderVars == <<raw, pos, rows_out, pc, out, error, written>>

callVars == <<call, ret>>

analysisVars == <<df, script, apc, trace, aerror>>

-----------------------------------------------------------------------------
(* Characters and the str methods the encoder uses.                        *)

EN_DASH == "<U+2013>"

SUPERSCRIPT_TWO == "<U+00B2>"

None == <<>>

Some(v) == <<v>>

UpperLetters ==
    <<"A", "B", "C", "D", "E", "F", "G", "H", "I", "J", "K", "L", "M",
      "N", "O", "P", "Q", "R", "S", "T", "U", "V", "W", "X", "Y", "Z">>

LowerLetters ==
    <<"a", "b", "c", "d", "e", "f", "g", "h", "i", "j", "k", "l", "m",
      "n", "o", "p", "q", "r", "s", "t", "u", "v", "w", "x", "y", "z">>

Whitespace == {" ", "\t", "\n", "\r"}

DecimalDigits == <<"0", "1", "2", "3", "4", "5", "6", "7", "8", "9">>

\* Characters str.isdigit accepts: the decimal digits and the digit-typed
\* characters that are not decimal, of which the superscript two stands here.
IsDigitChar(c) == (\E i \in 1..10 : DecimalDigits[i] = c) \/ c = SUPERSCRIPT_TWO

IsDecimalChar(c) == \E i \in 1..10 : DecimalDigits[i] = c

DigitValue(c) == (CHOOSE i \in 1..10 : DecimalDigits[i] = c) - 1

LowerChar(c) ==
    IF \E i \in 1..26 : UpperLetters[i] = c
    THEN LowerLetters[CHOOSE i \in 1..26 : UpperLetters[i] = c]
    ELSE c

UpperChar(c) ==
    IF \E i \in 1..26 : LowerLetters[i] = c
    THEN UpperLetters[CHOOSE i \in 1..26 : LowerLetters[i] = c]
    ELSE c

\* str.lower
lower(s) == [i \in 1..Len(s) |-> LowerChar(s[i])]

\* str.upper
upper(s) == [i \in 1..Len(s) |-> UpperChar(s[i])]

RECURSIVE lstrip(_)
lstrip(s) == IF s # <<>> /\ Head(s) \in Whitespace THEN lstrip(Tail(s)) ELSE s

RECURSIVE rstrip(_)
rstrip(s) ==
    IF s # <<>> /\ s[Len(s)] \in Whitespace
    THEN rstrip(SubSeq(s, 1, Len(s) - 1))
    ELSE s

\* str.strip
strip(s) == rstrip(lstrip(s))

\* str.isdigit: at least one character and every character digit-typed
isdigit(s) == s # <<>> /\ \A i \in 1..Len(s) : IsDigitChar(s[i])

\* int(s) succeeds on a digit-typed string only when every character is decimal
IntParses(s) == s # <<>> /\ \A i \in 1..Len(s) : IsDecimalChar(s[i])

RECURSIVE IntOf(_)
IntOf(s) ==
    IF s = <<>> THEN 0
    ELSE 10 * IntOf(SubSeq(s, 1, Len(s) - 1)) + DigitValue(s[Len(s)])

RECURSIVE StrOfNat(_)
StrOfNat(n) ==
    IF n < 10 THEN <<DecimalDigits[n + 1]>>
    ELSE StrOfNat(n \div 10) \o <<DecimalDigits[(n % 10) + 1]>>

-----------------------------------------------------------------------------
(* Encoding maps.                                                          *)

Q7_MAP ==
    (<<"n", "o", "t", " ", "a", "t", " ", "a", "l", "l">> :> 1)
    @@ (<<"n", "e", "u", "t", "r", "a", "l">> :> 2)
    @@ (<<"s", "l", "i", "g", "h", "t", "l", "y", " ", "d", "i", "s", "t", "r", "a", "c", "t",
          "i", "n", "g">> :> 3)
    @@ (<<"m", "o", "d", "e", "r", "a", "t", "e", "l", "y", " ", "d", "i", "s", "t", "r", "a",
          "c", "t", "i", "n", "g">> :> 4)
    @@ (<<"h", "i", "g", "h", "l", "y", " ", "d", "i", "s", "t", "r", "a", "c", "t", "i", "n",
          "g">> :> 5)
    @@ (<<"s", "e", "v", "e", "r", "e", "l", "y", " ", "a", "f", "f", "e", "c", "t", "s", " ",
          "r", "e", "s", "t", " ", "q", "u", "a", "l", "i", "t", "y">> :> 6)

Q11_MAP ==
    (<<"i", "m", "p", "r", "o", "v", "e", "s", " ", "s", "i", "g", "n", "i", "f", "i", "c",
          "a", "n", "t", "l", "y">> :> 1)
    @@ (<<"n", "e", "u", "t", "r", "a", "l">> :> 2)
    @@ (<<"r", "e", "d", "u", "c", "e", "s", " ", "s", "l", "i", "g", "h", "t", "l", "y">> :> 3)
    @@ (<<"r", "e", "d", "u", "c", "e", "s", " ", "s", "i", "g", "n", "i", "f", "i", "c", "a",
          "n", "t", "l", "y">> :> 4)

AGE_MAP ==
    (<<"1", "8", " ", EN_DASH, " ", "2", "5">> :> 1)
    @@ (<<"2", "6", " ", EN_DASH, " ", "4", "0">> :> 2)
    @@ (<<"4", "1", " ", EN_DASH, " ", "5", "9">> :> 3)
    @@ (<<"6", "0", "+">> :> 4)

DURATION_MAP ==
    (<<"l", "e", "s", "s", " ", "t", "h", "a", "n", " ", "1", " ", "y", "e", "a", "r">> :> 1)
    @@ (<<"1", " ", "-", " ", "5", " ", "y", "e", "a", "r", "s">> :> 2)
    @@ (<<"5", " ", "-", " ", "1", "0", " ", "y", "e", "a", "r", "s">> :> 3)
    @@ (<<"m", "o", "r", "e", " ", "t", "h", "a", "n", " ", "1", "0", " ", "y", "e", "a", "r",
          "s">> :> 4)

FLOOR_MAP ==
    (<<"l", "o", "w", " ", "r", "i", "s", "e", " ", "(", "f", "l", "o", "o", "r", "s", " ",
          "1", EN_DASH, "5", ")">> :> 1)
    @@ (<<"m", "i", "d", " ", "r", "i", "s", "e", " ", "(", "f", "l", "o", "o", "r", "s", " ",
          "6", EN_DASH, "1", "0", ")">> :> 2)
    @@ (<<"h", "i", "g", "h", " ", "r", "i", "s", "e", " ", "(", "f", "l", "o", "o", "r", "s",
          " ", "1", "1", "+", ")">> :> 3)

\* "maybe" counted as agreement
COMMUNITY_MAP_maybe_yes ==
    (<<"n", "o">> :> 0)
    @@ (<<"n", "e", "u", "t", "r", "a", "l">> :> 1)
    @@ (<<"m", "a", "y", "b", "e">> :> 2)
    @@ (<<"y", "e", "s">> :> 2)
    @@ (<<"y", "e", "s", ",", " ", "i", " ", "f", "e", "e", "l", " ", "a", " ", "s", "t", "r",
          "o", "n", "g", " ", "c", "o", "n", "n", "e", "c", "t", "i", "o", "n", ".">> :> 2)
    @@ (<<"y", "e", "s", ",", " ", "v", "e", "r", "y", " ", "s", "t", "r", "o", "n", "g">> :> 2)

COMMUNITY_MAP ==
    (<<"n", "o">> :> 0)
    @@ (<<"n", "e", "u", "t", "r", "a", "l">> :> 1)
    @@ (<<"m", "a", "y", "b", "e">> :> 1)
    @@ (<<"y", "e", "s">> :> 2)
    @@ (<<"y", "e", "s", ",", " ", "i", " ", "f", "e", "e", "l", " ", "a", " ", "s", "t", "r",
          "o", "n", "g", " ", "c", "o", "n", "n", "e", "c", "t", "i", "o", "n", ".">> :> 2)
    @@ (<<"y", "e", "s", ",", " ", "v", "e", "r", "y", " ", "s", "t", "r", "o", "n", "g">> :> 2)

NOISE_SPIKE_MAP ==
    (<<"n", "o">> :> 0)

-----------------------------------------------------------------------------
(* encode and noise_spike.                                                 *)

\* a lookup that falls back to code 0 instead of the default
encode_default_zero(val, mapping, default) ==
    LET k == lower(strip(val))
    IN  IF k \in DOMAIN mapping THEN Some(mapping[k]) ELSE Some(0)

\* a lookup that accepts any text beginning with a key
encode_prefix_match(val, mapping, default) ==
    LET k == lower(strip(val))
        hits == {key \in DOMAIN mapping :
                    Len(key) <= Len(k) /\ SubSeq(k, 1, Len(key)) = key}
    IN  IF hits # {} THEN Some(mapping[CHOOSE key \in hits : TRUE]) ELSE default

\* a lookup that trims but does not lower-case
encode_case_sensitive(val, mapping, default) ==
    LET k == strip(val)
    IN  IF k \in DOMAIN mapping THEN Some(mapping[k]) ELSE default

encode(val, mapping, default) ==
    LET k == lower(strip(val))
    IN  IF k \in DOMAIN mapping THEN Some(mapping[k]) ELSE default

\* blank counted as "no"
noise_spike_blank_is_no(val) ==
    IF lower(strip(val)) = <<"n", "o">> \/ strip(val) = <<>> THEN 0 ELSE 1

noise_spike(val) == IF lower(strip(val)) = <<"n", "o">> THEN 0 ELSE 1

-----------------------------------------------------------------------------
(* The raw export: column headers in the order main reads them.            *)

COL_SITE == "12. Which site do you live in?"

COL_AGE == "1. Which age group do you fall into?"

COL_DUR == "2. How long have you lived in this estate?"

COL_FLOOR == "3. Which floor range is your unit located on?"

COL_Q4 == "4. On a normal day, how would you rate the noise level from 1 to 10?"

COL_Q5 == "5. What are the main noise sources you notice most often?"

COL_Q6 == "6. Does the noise ever spike during specific hours / events?"

COL_Q7 == "7. How does the noise level affect your ability to concentrate (studying, working)?"

COL_Q8 == "8. How do you find the quality of air in your living area?"

COL_Q9 == "9. Convenience: When there are big festivals or religious practices, events etc, how does it affect your routine?"

COL_Q10 == "10. Does living so close to these cultural/religious hubs make you feel more connected to the community?"

COL_Q11 == "11. Overall, would you say living here improves or reduces your Quality of Life?"

\* the twelve row[...] reads of the loop body, in program order
RequiredColumns ==
    <<COL_SITE, COL_AGE, COL_DUR, COL_FLOOR, COL_Q4, COL_Q5,
      COL_Q6, COL_Q7, COL_Q8, COL_Q9, COL_Q10, COL_Q11>>

AllColumns == {RequiredColumns[i] : i \in 1..Len(RequiredColumns)}

\* keys of the dict appended to rows_out, in insertion order
FieldNames ==
    <<"respondent_id", "site", "age_group", "age_numeric", "residency_duration",
      "residency_numeric", "floor_level", "floor_numeric", "Q4_noise_rating",
      "Q5_noise_sources", "Q6_noise_spike", "Q6_spike_raw", "Q7_concentration_raw",
      "Q7_concentration", "Q8_air_quality", "Q9_convenience_raw", "Q10_community_raw",
      "Q10_community", "Q11_QoL_raw", "Q11_QoL">>

\* a parse that also takes a leading sign
int_if_signed(q) ==
    IF isdigit(q) THEN Some(IntOf(q))
    ELSE IF Len(q) > 1 /\ q[1] = "-" /\ isdigit(Tail(q)) THEN Some(0 - IntOf(Tail(q)))
    ELSE IF Len(q) > 1 /\ q[1] = "+" /\ isdigit(Tail(q)) THEN Some(IntOf(Tail(q)))
    ELSE None

\* a parse that keeps only 1..10
int_if_in_range(q) ==
    IF isdigit(q) /\ IntOf(q) \in 1..10 THEN Some(IntOf(q)) ELSE None

\* int(q) if q.isdigit() else None, for a q on which int succeeds
int_if_isdigit(q) == IF isdigit(q) THEN Some(IntOf(q)) ELSE None

\* the dict literal of the loop body
CleanRecord(idx, row) ==
    LET site      == strip(row[COL_SITE])
        age_raw   == strip(row[COL_AGE])
        dur_raw   == strip(row[COL_DUR])
        floor_raw == strip(row[COL_FLOOR])
        q4        == strip(row[COL_Q4])
        q5        == strip(row[COL_Q5])
        q6_raw    == strip(row[COL_Q6])
        q7_raw    == strip(row[COL_Q7])
        q8        == strip(row[COL_Q8])
        q9_raw    == strip(row[COL_Q9])
        q10_raw   == strip(row[COL_Q10])
        q11_raw   == strip(row[COL_Q11])
    IN  [ respondent_id        |-> idx,
          site                 |-> site,
          age_group            |-> age_raw,
          age_numeric          |-> encode(age_raw, AGE_MAP, None),
          residency_duration   |-> dur_raw,
          residency_numeric    |-> encode(dur_raw, DURATION_MAP, None),
          floor_level          |-> floor_raw,
          floor_numeric        |-> encode(floor_raw, FLOOR_MAP, None),
          Q4_noise_rating      |-> int_if_isdigit(q4),
          Q5_noise_sources     |-> q5,
          Q6_noise_spike       |-> noise_spike(q6_raw),
          Q6_spike_raw         |-> q6_raw,
          Q7_concentration_raw |-> q7_raw,
          Q7_concentration     |-> encode(q7_raw, Q7_MAP, None),
          Q8_air_quality       |-> int_if_isdigit(q8),
          Q9_convenience_raw   |-> q9_raw,
          Q10_community_raw    |-> q10_raw,
          Q10_community        |-> encode(q10_raw, COMMUNITY_MAP, None),
          Q11_QoL_raw          |-> q11_raw,
          Q11_QoL              |-> encode(q11_raw, Q11_MAP, None) ]

\* enumerate counting from 0
enumerate_from_zero(n) == n

\* enumerate(reader, start=1): the index of the row after n rows were read
enumerate_start(n) == n + 1

\* exceptions that end the run
NoError == <<>>

KeyError(col) == <<[type |-> "KeyError", arg |-> col]>>

ValueError(text) == <<[type |-> "ValueError", arg |-> text]>>

IndexError == <<[type |-> "IndexError", arg |-> "list index out of range"]>>

\* the first row[...] read that fails, if any
MissingReads(row) == {i \in 1..Len(RequiredColumns) : RequiredColumns[i] \notin DOMAIN row}

FirstMissing(row) ==
    RequiredColumns[CHOOSE i \in MissingReads(row) : \A j \in MissingReads(row) : i <= j]

\* what one pass of the loop body raises, NoError when it appends
RowError(row) ==
    IF MissingReads(row) # {} THEN KeyError(FirstMissing(row))
    ELSE LET q4 == strip(row[COL_Q4])
             q8 == strip(row[COL_Q8])
         IN  IF isdigit(q4) /\ ~IntParses(q4) THEN ValueError(q4)
             ELSE IF isdigit(q8) /\ ~IntParses(q8) THEN ValueError(q8)
             ELSE NoError

\* survey_clean.csv: <<>> when the file does not exist, else its one content
Absent == <<>>

EmptyFile == <<[header |-> <<>>, rows |-> <<>>]>>

\* csv.DictWriter's text of one value: None is the empty field, an int its digits
CsvText(name, v) ==
    IF name = "respondent_id" \/ name = "Q6_noise_spike" THEN StrOfNat(v)
    ELSE IF name \in {"age_numeric", "residency_numeric", "floor_numeric",
                      "Q4_noise_rating", "Q7_concentration", "Q8_air_quality",
                      "Q10_community", "Q11_QoL"}
         THEN (IF v = None THEN <<>> ELSE StrOfNat(v[1]))
         ELSE v

CsvRow(fieldnames, r) == [i \in 1..Len(fieldnames) |-> CsvText(fieldnames[i], r[fieldnames[i]])]

WrittenFile(fieldnames, rows) ==
    <<[header |-> fieldnames, rows |-> [i \in 1..Len(rows) |-> CsvRow(fieldnames, rows[i])]]>>

\* one pass of "for idx, row in enumerate(reader, start=1)"
EncodeRow ==
    /\ pc = "loop"
    /\ pos < Len(raw.rows)
    /\ LET idx == enumerate_start(pos)
           row == raw.rows[pos + 1]
       IN  /\ pos' = pos + 1
           /\ IF RowError(row) # NoError
              THEN /\ error' = RowError(row)
                   /\ pc' = "aborted"
                   /\ UNCHANGED rows_out
              ELSE /\ rows_out' = Append(rows_out, CleanRecord(idx, row))
                   /\ UNCHANGED <<error, pc>>
    /\ UNCHANGED <<raw, out, written, callVars, analysisVars>>

\* the reader is exhausted: fieldnames = list(rows_out[0].keys()); open(OUT, "w")
OpenOut ==
    /\ pc = "loop"
    /\ pos = Len(raw.rows)
    /\ IF rows_out = <<>>
       THEN /\ error' = IndexError
            /\ pc' = "aborted"
            /\ UNCHANGED out
       ELSE /\ out' = EmptyFile
            /\ pc' = "writing"
            /\ UNCHANGED error
    /\ UNCHANGED <<raw, pos, rows_out, written, callVars, analysisVars>>

\* writer.writeheader(); writer.writerows(rows_out); the with block closes the file
WriteOut ==
    /\ pc = "writing"
    /\ out' = WrittenFile(FieldNames, rows_out)
    /\ written' = Append(written, out')
    /\ pc' = "done"
    /\ UNCHANGED <<raw, pos, rows_out, error, callVars, analysisVars>>

-----------------------------------------------------------------------------
(* Inputs: the raw files the encoder is run on.                            *)

\* most data rows of a raw file
MaxRows == 2

\* answers as the form offers them
TypicalAnswers ==
    (COL_SITE :> <<"A", "l", "b", "e", "r", "t", " ", "C", "e", "n", "t", "r", "e">>)
    @@ (COL_AGE :> <<"1", "8", " ", EN_DASH, " ", "2", "5">>)
    @@ (COL_DUR :> <<"1", " ", "-", " ", "5", " ", "y", "e", "a", "r", "s">>)
    @@ (COL_FLOOR :> <<"M", "i", "d", " ", "r", "i", "s", "e", " ", "(", "f", "l", "o", "o",
          "r", "s", " ", "6", EN_DASH, "1", "0", ")">>)
    @@ (COL_Q5 :> <<"T", "r", "a", "f", "f", "i", "c">>)
    @@ (COL_Q6 :> <<"Y", "e", "s">>)
    @@ (COL_Q7 :> <<"S", "l", "i", "g", "h", "t", "l", "y", " ", "d", "i", "s", "t", "r", "a",
          "c", "t", "i", "n", "g">>)
    @@ (COL_Q9 :> <<"N", "o", " ", "c", "h", "a", "n", "g", "e">>)
    @@ (COL_Q10 :> <<"M", "a", "y", "b", "e">>)
    @@ (COL_Q11 :> <<"N", "e", "u", "t", "r", "a", "l">>)

\* recognised answers in other letter case and with surrounding whitespace
MessyAnswers ==
    (COL_SITE :> <<" ", "W", "a", "t", "e", "r", "l", "o", "o", " ", "C", "e", "n", "t", "r",
          "e", " ">>)
    @@ (COL_AGE :> <<"6", "0", "+", " ">>)
    @@ (COL_DUR :> <<"L", "E", "S", "S", " ", "T", "H", "A", "N", " ", "1", " ", "Y", "E", "A",
          "R">>)
    @@ (COL_FLOOR :> <<"\t", "l", "o", "w", " ", "r", "i", "s", "e", " ", "(", "f", "l", "o",
          "o", "r", "s", " ", "1", EN_DASH, "5", ")">>)
    @@ (COL_Q5 :> <<>>)
    @@ (COL_Q6 :> <<" ", "N", "O", " ">>)
    @@ (COL_Q7 :> <<"N", "O", "T", " ", "A", "T", " ", "A", "L", "L">>)
    @@ (COL_Q9 :> <<>>)
    @@ (COL_Q10 :> <<" ", "Y", "e", "s", ",", " ", "v", "e", "r", "y", " ", "s", "t", "r", "o",
          "n", "g", " ">>)
    @@ (COL_Q11 :> <<"R", "e", "d", "u", "c", "e", "s", " ", "S", "l", "i", "g", "h", "t", "l",
          "y">>)

\* blank and unrecognised answers
UnknownAnswers ==
    (COL_SITE :> <<>>)
    @@ (COL_AGE :> <<"1", "8", "-", "2", "5">>)
    @@ (COL_DUR :> <<>>)
    @@ (COL_FLOOR :> <<"L", "o", "w", " ", "r", "i", "s", "e">>)
    @@ (COL_Q5 :> <<" ", " ">>)
    @@ (COL_Q6 :> <<>>)
    @@ (COL_Q7 :> <<"d", "i", "s", "t", "r", "a", "c", "t", "i", "n", "g">>)
    @@ (COL_Q9 :> <<"?">>)
    @@ (COL_Q10 :> <<"y", "e", "s", "!">>)
    @@ (COL_Q11 :> <<"n", "e", "u", "t", "r", "a", "l", " ", "o", "r", " ", "s", "o">>)

\* texts of a 1-10 answer: numbers in and out of range, padded, signed, blank,
\* not numeric, and digit-typed without being decimal
NumTexts ==
    { <<"7">>, <<" ", "7", " ">>, <<"1", "0">>, <<"0">>, <<"9", "9">>, <<"0", "0", "7">>,
      <<"-", "3">>, <<"+", "7">>, <<>>, <<"x">>, <<"7", ".", "5">>, <<"1", " ", "0">>,
      <<SUPERSCRIPT_TWO>>, <<"1", SUPERSCRIPT_TWO>> }

AnswerProfiles == {TypicalAnswers, MessyAnswers, UnknownAnswers}

RawRow(answers, q4, q8) == answers @@ (COL_Q4 :> q4) @@ (COL_Q8 :> q8)

\* the (Q4, Q8) answers of the rows of the longer files
NumPairs ==
    { <<<<"7">>, <<"3">>>>, <<<<"0">>, <<"9", "9">>>>, <<<<"-", "3">>, <<>>>>,
      <<<<SUPERSCRIPT_TWO>>, <<"5">>>> }

RowPool == {RawRow(a, n[1], n[2]) : a \in AnswerProfiles, n \in NumPairs}

WideRowPool == {RawRow(a, q4, q8) : a \in AnswerProfiles, q4 \in NumTexts, q8 \in NumTexts}

\* rows that differ in the noise-spike answer alone
SpikeTexts ==
    {l \o m \o r :
        l \in {<<>>, <<" ">>}, r \in {<<>>, <<"\t">>},
        m \in { <<"n", "o">>, <<"N", "o">>, <<"n", "O">>, <<"N", "O">>, <<>>, <<"n">>,
                <<"n", "o", "t">>, <<"n", "o", "n", "e">>, <<"n", " ", "o">>,
                <<"n", "o", ".">>, <<"o", "n">>, <<"y", "e", "s">>, <<"0">> }}

SpikeRowPool ==
    {RawRow([TypicalAnswers EXCEPT ![COL_Q6] = s], <<"7">>, <<"3">>) : s \in SpikeTexts}

\* csv.DictReader keys every row by the header line
Restrict(row, header) == [c \in header |-> row[c]]

\* the full header, a header lacking one required column, and one lacking two
Headers ==
    {AllColumns} \cup {AllColumns \ {c} : c \in AllColumns}
        \cup {AllColumns \ {COL_AGE, COL_Q8}}

RECURSIVE SeqsUpTo(_, _)
SeqsUpTo(S, n) ==
    IF n = 0 THEN {<<>>}
    ELSE LET shorter == SeqsUpTo(S, n - 1)
         IN  shorter \cup {Append(s, x) : s \in {t \in shorter : Len(t) = n - 1}, x \in S}

RawFiles ==
    {[header |-> h, rows |-> [i \in 1..Len(rs) |-> Restrict(rs[i], h)]] :
        h \in Headers, rs \in SeqsUpTo(RowPool, MaxRows)}
    \cup {[header |-> AllColumns, rows |-> <<r>>] : r \in WideRowPool \cup SpikeRowPool}

NoFile == [header |-> {}, rows |-> <<>>]

\* survey_clean.csv as an earlier run left it
StaleFile == WrittenFile(FieldNames, <<CleanRecord(1, RawRow(TypicalAnswers, <<"5">>, <<"5">>))>>)

NoCall == [fn |-> "none"]

\* no analysis script is running
NoAnalysis ==
    /\ df = <<>>
    /\ script = "none"
    /\ apc = [at |-> "idle", i |-> 0]
    /\ trace = <<>>
    /\ aerror = NoError

Init ==
    /\ raw \in RawFiles
    /\ pos = 0
    /\ rows_out = <<>>
    /\ pc = "loop"
    /\ out \in {Absent, StaleFile}
    /\ error = NoError
    /\ written = <<>>
    /\ call = NoCall
    /\ ret = <<>>
    /\ NoAnalysis

Next == EncodeRow \/ OpenOut \/ WriteOut

\* most runs of main on one raw file
MaxRuns == 2

\* rows_out carried over from the run before
rows_out_kept(old) == old

\* rows_out = []: main starts from an empty table, whatever the run before left
rows_out_new(old) == <<>>

\* main is run again on the same raw file, after a run that ended
Rerun ==
    /\ pc \in {"done", "aborted"}
    /\ Len(written) < MaxRuns
    /\ pos' = 0
    /\ rows_out' = rows_out_new(rows_out)
    /\ pc' = "loop"
    /\ error' = NoError
    /\ UNCHANGED <<raw, out, written, callVars, analysisVars>>

NextRerun == Next \/ Rerun

SpecRerun == Init /\ [][NextRerun]_vars

Spec == Init /\ [][Next]_vars

-----------------------------------------------------------------------------
(* interpret (analysis_2_spearman.py).  A float is <<>> for nan and <<k>>  *)
(* for the number k / Scale.                                               *)

\* resolution of the coefficients and p-values tried
Scale == 20

\* largest sample size tried
MaxN == 31

NaN == <<>>

Abs(k) == IF k < 0 THEN -k ELSE k

\* abs(x) >= num/den, false for nan
AbsGE(x, num, den) == x # NaN /\ Abs(x[1]) * den >= num * Scale

\* x < num/den, false for nan
LessThan(x, num, den) == x # NaN /\ x[1] * den < num * Scale

\* x > 0, false for nan
Positive(x) == x # NaN /\ x[1] > 0

\* abs(x) > num/den, false for nan
AbsGT(x, num, den) == x # NaN /\ Abs(x[1]) * den > num * Scale

\* strict thresholds: the boundary values fall in the weaker class
interpret_strict(rho, p, n) ==
    LET sig == LessThan(p, 5, 100)
    IN  [ strength  |-> IF AbsGT(rho, 7, 10) THEN "strong"
                        ELSE IF AbsGT(rho, 4, 10) THEN "moderate"
                        ELSE "weak",
          direction |-> IF Positive(rho) THEN "positive" ELSE "negative",
          sig_str   |-> IF sig THEN "statistically significant"
                        ELSE "not statistically significant",
          caveat    |-> IF ~sig THEN <<n>> ELSE <<>> ]

\* a coefficient of exactly 0 counted as positive
interpret_zero_positive(rho, p, n) ==
    LET sig == LessThan(p, 5, 100)
    IN  [ strength  |-> IF AbsGE(rho, 7, 10) THEN "strong"
                        ELSE IF AbsGE(rho, 4, 10) THEN "moderate"
                        ELSE "weak",
          direction |-> IF rho # NaN /\ rho[1] >= 0 THEN "positive" ELSE "negative",
          sig_str   |-> IF sig THEN "statistically significant"
                        ELSE "not statistically significant",
          caveat    |-> IF ~sig THEN <<n>> ELSE <<>> ]

\* the fields of the returned sentence; caveat is <<n>> when the n= note is attached
interpret(rho, p, n) ==
    LET sig == LessThan(p, 5, 100)
        strength ==
            IF AbsGE(rho, 7, 10) THEN "strong"
            ELSE IF AbsGE(rho, 4, 10) THEN "moderate"
            ELSE "weak"
        direction == IF Positive(rho) THEN "positive" ELSE "negative"
        sig_str == IF sig THEN "statistically significant" ELSE "not statistically significant"
        caveat == IF ~sig THEN <<n>> ELSE <<>>
    IN  [strength |-> strength, direction |-> direction, sig_str |-> sig_str, caveat |-> caveat]

-----------------------------------------------------------------------------
(* Calls of the pure functions on enumerated arguments.                    *)

\* most whitespace characters put on either side of a text
MaxPad == 1

PadChars == {" ", "\t"}

Pads == SeqsUpTo(PadChars, MaxPad)

Capitalize(s) == [i \in 1..Len(s) |-> IF i = 1 THEN UpperChar(s[i]) ELSE s[i]]

UpperAt(s, j) == [i \in 1..Len(s) |-> IF i = j THEN UpperChar(s[i]) ELSE s[i]]

\* a table key in other letter case
CaseForms(k) == {k, upper(k), Capitalize(k)} \cup {UpperAt(k, j) : j \in 1..Len(k)}

\* texts that contain, extend or shorten a table key
NearKeys(k) ==
    { k \o <<"x">>, <<"x">> \o k, k \o <<" ">> \o k, k \o <<".">>,
      SubSeq(k, 1, Len(k) - 1), Tail(k) }

OtherTexts == {<<>>, <<"0">>, <<"1">>, <<"n">>, <<"n", " ", "o">>, <<"n", "/", "a">>}

Padded(S) == {l \o m \o r : l \in Pads, m \in S, r \in Pads}

TextsFor(mapping) ==
    Padded(UNION {CaseForms(k) \cup NearKeys(k) : k \in DOMAIN mapping} \cup OtherTexts)

OrdinalTables == {Q7_MAP, Q11_MAP, AGE_MAP, DURATION_MAP, FLOOR_MAP, COMMUNITY_MAP}

EncodeCalls ==
    UNION {{[fn |-> "encode", val |-> v, mapping |-> m] : v \in TextsFor(m)} : m \in OrdinalTables}

NoiseSpikeCalls ==
    {[fn |-> "noise_spike", val |-> v] : v \in TextsFor(NOISE_SPIKE_MAP) \cup TextsFor(COMMUNITY_MAP)}

Floats == {NaN} \cup {<<k>> : k \in -Scale..Scale}

Probabilities == {NaN} \cup {<<k>> : k \in 0..Scale}

SampleSizes == {0, 2, 3, 20, MaxN - 2, MaxN - 1, MaxN}

InterpretCalls ==
    {[fn |-> "interpret", rho |-> r, p |-> q, n |-> m] :
        r \in Floats, q \in Probabilities, m \in SampleSizes}

CallEncode ==
    /\ call.fn = "encode"
    /\ ret = <<>>
    /\ ret' = <<encode(call.val, call.mapping, None)>>
    /\ UNCHANGED <<call, encoderVars, analysisVars>>

CallNoiseSpike ==
    /\ call.fn = "noise_spike"
    /\ ret = <<>>
    /\ ret' = <<noise_spike(call.val)>>
    /\ UNCHANGED <<call, encoderVars, analysisVars>>

CallInterpret ==
    /\ call.fn = "interpret"
    /\ ret = <<>>
    /\ ret' = <<interpret(call.rho, call.p, call.n)>>
    /\ UNCHANGED <<call, encoderVars, analysisVars>>

InitCalls ==
    /\ raw = NoFile
    /\ pos = 0
    /\ rows_out = <<>>
    /\ pc = "idle"
    /\ out = Absent
    /\ error = NoError
    /\ written = <<>>
    /\ call \in EncodeCalls \cup NoiseSpikeCalls \cup InterpretCalls
    /\ ret = <<>>
    /\ NoAnalysis

NextCalls == CallEncode \/ CallNoiseSpike \/ CallInterpret

SpecCalls == InitCalls /\ [][NextCalls]_vars

-----------------------------------------------------------------------------
(* Properties.                                                             *)

\* v is k with whitespace added on either side and letters of k in either case
IsVariantOf(v, k) ==
    \E a \in 0..Len(v) :
        LET b == Len(v) - Len(k) - a
        IN  /\ b >= 0
            /\ \A i \in 1..a : v[i] \in Whitespace
            /\ \A i \in (Len(v) - b + 1)..Len(v) : v[i] \in Whitespace
            /\ \A i \in 1..Len(k) : v[a + i] = k[i] \/ v[a + i] = UpperChar(k[i])

EncodeReturned == call.fn = "encode" /\ ret # <<>>

\* C1: for every ordinal table and every text that, trimmed and lower-cased, is
\* no key of the table (the empty text and texts that only contain or extend a
\* key included), encode returns None and never an integer code.
C1_AbsentTextGivesNone ==
    (EncodeReturned /\ ~ \E k \in DOMAIN call.mapping : IsVariantOf(call.val, k))
        => ret[1] = None

\* encode has returned None for a text that extends a key, and the text is not blank
C1_Witness ==
    /\ EncodeReturned
    /\ \E k \in DOMAIN call.mapping : call.val = k \o <<"x">>
    /\ ret[1] = None

\* C2: for every table and key k, encode of any text that differs from k only by
\* leading/trailing whitespace or letter case returns the code encode(k) returns.
C2_NormalizationInvariant ==
    EncodeReturned =>
        \A k \in DOMAIN call.mapping :
            IsVariantOf(call.val, k) =>
                /\ ret[1] = Some(call.mapping[k])
                /\ ret[1] = encode(k, call.mapping, None)

\* encode has returned a key's code for the key in upper case between whitespace
C2_Witness ==
    /\ EncodeReturned
    /\ \E k \in DOMAIN call.mapping :
        /\ call.val = <<" ">> \o upper(k) \o <<"\t">>
        /\ call.val # k
        /\ ret[1] = Some(call.mapping[k])

\* C3: the record at 1-based position i of the clean table has respondent_id i,
\* after every append; while the loop runs the table holds as many records as
\* rows were read, and once the input of n rows is processed it holds n records.
C3_IdsArePositions ==
    /\ \A i \in 1..Len(rows_out) : rows_out[i].respondent_id = i
    /\ pc = "loop" => Len(rows_out) = pos
    /\ pc \in {"writing", "done"} => Len(rows_out) = Len(raw.rows)

\* a run over two rows has finished with both records in the table
C3_Witness ==
    /\ pc = "done"
    /\ Len(raw.rows) = 2
    /\ Len(rows_out) = 2
    /\ rows_out[2].respondent_id = 2

\* the text as Python's int reads it: an optional sign before decimal digits
ParsesAsInteger(q) ==
    \/ IntParses(q)
    \/ Len(q) > 1 /\ q[1] \in {"+", "-"} /\ IntParses(Tail(q))

IntegerValue(q) ==
    IF q[1] = "-" THEN 0 - IntOf(Tail(q))
    ELSE IF q[1] = "+" THEN IntOf(Tail(q))
    ELSE IntOf(q)

NumericColumns == {<<COL_Q4, "Q4_noise_rating">>, <<COL_Q8, "Q8_air_quality">>}

\* C4 as stated: the Q4 and Q8 fields hold the integer value of the trimmed raw
\* text whenever it parses as an integer, signed forms included, else None.
C4_SignedIntegersKept ==
    \A i \in 1..Len(rows_out) : \A c \in NumericColumns :
        LET q == strip(raw.rows[i][c[1]])
        IN  rows_out[i][c[2]] = IF ParsesAsInteger(q) THEN Some(IntegerValue(q)) ELSE None

\* C4 amended: in every clean record the Q4 and Q8 fields hold the integer value
\* of the trimmed raw text when it is a non-empty run of decimal digits, and None
\* otherwise; a signed text such as "-3" or "+7" is stored as None.
C4_DigitStringsKept ==
    \A i \in 1..Len(rows_out) : \A c \in NumericColumns :
        LET q == strip(raw.rows[i][c[1]])
            f == rows_out[i][c[2]]
        IN  /\ f = IF IntParses(q) THEN Some(IntOf(q)) ELSE None
            /\ q = <<"7">> => f = <<7>>
            /\ q = <<"1", "0">> => f = <<10>>
            /\ q = <<"0", "0", "7">> => f = <<7>>
            /\ q \in {<<"-", "3">>, <<"+", "7">>} => f = None

\* a record was appended whose Q4 text is "-3" and whose Q4 field is None
C4_Witness ==
    \E i \in 1..Len(rows_out) :
        /\ strip(raw.rows[i][COL_Q4]) = <<"-", "3">>
        /\ rows_out[i].Q4_noise_rating = None

InRangeOrNone(f, lo, hi) == f = None \/ (Len(f) = 1 /\ f[1] \in lo..hi)

OrdinalFieldsInRange(r) ==
    /\ InRangeOrNone(r.Q7_concentration, 1, 6)
    /\ InRangeOrNone(r.Q11_QoL, 1, 4)
    /\ InRangeOrNone(r.Q10_community, 0, 2)
    /\ InRangeOrNone(r.age_numeric, 1, 4)
    /\ InRangeOrNone(r.residency_numeric, 1, 4)
    /\ InRangeOrNone(r.floor_numeric, 1, 3)

\* C5 as stated: every numeric field of every clean record is inside its
\* question's range or None; an out-of-range Q4 or Q8 text is stored as None.
C5_AllFieldsInRange ==
    \A i \in 1..Len(rows_out) :
        /\ OrdinalFieldsInRange(rows_out[i])
        /\ InRangeOrNone(rows_out[i].Q4_noise_rating, 1, 10)
        /\ InRangeOrNone(rows_out[i].Q8_air_quality, 1, 10)

\* C5 amended: every table-encoded field of every clean record is inside its
\* question's range or None; Q4 and Q8 are None or a non-negative integer, which
\* may lie outside 1..10.
C5_EncodedFieldsInRange ==
    \A i \in 1..Len(rows_out) :
        /\ OrdinalFieldsInRange(rows_out[i])
        /\ \A c \in NumericColumns :
            LET f == rows_out[i][c[2]]
            IN  f = None \/ (Len(f) = 1 /\ f[1] >= 0)

\* a record holds 99 for air quality next to an unrecognised concentration answer
C5_Witness ==
    \E i \in 1..Len(rows_out) :
        /\ rows_out[i].Q8_air_quality = <<99>>
        /\ rows_out[i].Q7_concentration = None
        /\ rows_out[i].Q7_concentration_raw # <<>>

\* C6: a Q4 or Q8 text that is a non-negative integer outside 1..10 is stored
\* unchanged as that integer.
C6_OutOfRangeKept ==
    \A i \in 1..Len(rows_out) : \A c \in NumericColumns :
        LET q == strip(raw.rows[i][c[1]])
            f == rows_out[i][c[2]]
        IN  /\ (IntParses(q) /\ IntOf(q) \notin 1..10) => f = Some(IntOf(q))
            /\ q = <<"0">> => f = <<0>>
            /\ q = <<"9", "9">> => f = <<99>>

\* a record holds 0 for a noise rating given as "0"
C6_Witness ==
    \E i \in 1..Len(rows_out) :
        /\ strip(raw.rows[i][COL_Q4]) = <<"0">>
        /\ rows_out[i].Q4_noise_rating = <<0>>

\* C7: Q6_noise_spike is 0 exactly when the raw answer is "no" up to surrounding
\* whitespace and letter case, and 1 for every other answer, the blank one
\* included; it is never None.
C7_SpikeIsZeroOnlyForNo ==
    \A i \in 1..Len(rows_out) :
        LET a == raw.rows[i][COL_Q6]
            f == rows_out[i].Q6_noise_spike
        IN  /\ f \in {0, 1}
            /\ f = 0 <=> IsVariantOf(a, <<"n", "o">>)
            /\ strip(a) = <<>> => f = 1

\* a record holds 1 for a blank answer, in a table that also could hold 0
C7_Witness ==
    \E i \in 1..Len(rows_out) :
        /\ raw.rows[i][COL_Q6] \in {<<>>, <<" ">>, <<" ", "\t">>}
        /\ rows_out[i].Q6_noise_spike = 1

FieldNameSet == {FieldNames[i] : i \in 1..Len(FieldNames)}

\* C8: every row read that carries all twelve required columns has been encoded
\* without an exception into one complete clean record of 20 fields.
C8_CompleteRowNeverRaises ==
    \A i \in 1..pos :
        AllColumns \subseteq DOMAIN raw.rows[i] =>
            /\ i <= Len(rows_out)
            /\ DOMAIN rows_out[i] = FieldNameSet
            /\ Cardinality(FieldNameSet) = 20

\* C9: on a raw file lacking a required column the run never opens
\* survey_clean.csv, and when it has aborted the error names a missing column,
\* whatever the number of data rows.
C9_MissingColumnNamed ==
    ~(AllColumns \subseteq raw.header) =>
        /\ pc \notin {"writing", "done"}
        /\ out \in {Absent, StaleFile}
        /\ pc = "aborted" =>
            /\ error # NoError
            /\ error[1].type = "KeyError"
            /\ error[1].arg \in AllColumns \ raw.header

InterpretReturned == call.fn = "interpret" /\ ret # <<>>

\* C10: the strength label is defined for every coefficient; |rho| >= 0.7 gives
\* "strong", 0.4 <= |rho| < 0.7 gives "moderate", |rho| < 0.4 gives "weak", so
\* the boundary values 0.7 and 0.4 fall in the stronger class.
C10_StrengthClasses ==
    InterpretReturned =>
        /\ ret[1].strength \in {"strong", "moderate", "weak"}
        /\ call.rho # NaN =>
            LET a == Abs(call.rho[1])
            IN  /\ 10 * a >= 7 * Scale => ret[1].strength = "strong"
                /\ (10 * a >= 4 * Scale /\ 10 * a < 7 * Scale) => ret[1].strength = "moderate"
                /\ 10 * a < 4 * Scale => ret[1].strength = "weak"

\* interpret has labelled a coefficient of exactly -0.4 "moderate"
C10_Witness ==
    /\ InterpretReturned
    /\ call.rho # NaN
    /\ call.rho[1] < 0
    /\ 10 * Abs(call.rho[1]) = 4 * Scale
    /\ ret[1].strength = "moderate"

\* the sample size below which the scripts call a sample small
SMALL_N == 30

\* C11: the significance label is "statistically significant" exactly when
\* p < 0.05, and the small-sample caveat is attached exactly when the effective
\* sample size is below 30, for significant and non-significant results alike.
C11_CaveatBySampleSize ==
    InterpretReturned =>
        LET sig == call.p # NaN /\ 100 * call.p[1] < 5 * Scale
        IN  /\ ret[1].sig_str =
                   IF sig THEN "statistically significant"
                   ELSE "not statistically significant"
            /\ ret[1].caveat # <<>> <=> call.n < SMALL_N

-----------------------------------------------------------------------------
(* The analysis scripts.  Each reads survey_clean.csv with pandas.read_csv *)
(* into df and runs its analyses in program order.  A df value is <<>>     *)
(* for NaN and <<v>> for the value v; trace holds, in order, what the      *)
(* script has computed and printed; aerror is the exception that ended it. *)

\* most respondents of a survey
MaxRespondents == 5

\* a respondent of Albert Centre, low rise, with every answer recognised
RespondentA ==
    (COL_SITE :> <<"A", "l", "b", "e", "r", "t", " ", "C", "e", "n", "t", "r", "e">>)
    @@ (COL_AGE :> <<"1", "8", " ", EN_DASH, " ", "2", "5">>)
    @@ (COL_DUR :> <<"1", " ", "-", " ", "5", " ", "y", "e", "a", "r", "s">>)
    @@ (COL_FLOOR :> <<"L", "o", "w", " ", "R", "i", "s", "e", " ", "(", "F", "l", "o", "o",
          "r", "s", " ", "1", EN_DASH, "5", ")">>)
    @@ (COL_Q4 :> <<"7">>)
    @@ (COL_Q5 :> <<"R", "o", "a", "d", " ", "T", "r", "a", "f", "f", "i", "c", " ", "/", " ",
          "M", "R", "T", ",", " ", "R", "e", "l", "i", "g", "i", "o", "u", "s", " ", "A", "c",
          "t", "i", "v", "i", "t", "i", "e", "s">>)
    @@ (COL_Q6 :> <<"Y", "e", "s">>)
    @@ (COL_Q7 :> <<"S", "l", "i", "g", "h", "t", "l", "y", " ", "d", "i", "s", "t", "r", "a",
          "c", "t", "i", "n", "g">>)
    @@ (COL_Q8 :> <<"3">>)
    @@ (COL_Q9 :> <<>>)
    @@ (COL_Q10 :> <<"M", "a", "y", "b", "e">>)
    @@ (COL_Q11 :> <<"N", "e", "u", "t", "r", "a", "l">>)

\* a second respondent of Albert Centre, mid rise, with other answers
RespondentB ==
    (COL_SITE :> <<"A", "l", "b", "e", "r", "t", " ", "C", "e", "n", "t", "r", "e">>)
    @@ (COL_AGE :> <<"6", "0", "+">>)
    @@ (COL_DUR :> <<"L", "e", "s", "s", " ", "t", "h", "a", "n", " ", "1", " ", "y", "e", "a",
          "r">>)
    @@ (COL_FLOOR :> <<"M", "i", "d", " ", "R", "i", "s", "e", " ", "(", "F", "l", "o", "o",
          "r", "s", " ", "6", EN_DASH, "1", "0", ")">>)
    @@ (COL_Q4 :> <<"2">>)
    @@ (COL_Q5 :> <<"c", "o", "m", "m", "e", "r", "c", "i", "a", "l", " ", "e", "v", "e", "n",
          "t", "s">>)
    @@ (COL_Q6 :> <<"N", "o">>)
    @@ (COL_Q7 :> <<"N", "o", "t", " ", "a", "t", " ", "a", "l", "l">>)
    @@ (COL_Q8 :> <<"8">>)
    @@ (COL_Q9 :> <<>>)
    @@ (COL_Q10 :> <<"Y", "e", "s">>)
    @@ (COL_Q11 :> <<"I", "m", "p", "r", "o", "v", "e", "s", " ", "s", "i", "g", "n", "i", "f",
          "i", "c", "a", "n", "t", "l", "y">>)

\* a respondent of Waterloo Centre, high rise
RespondentC ==
    (COL_SITE :> <<"W", "a", "t", "e", "r", "l", "o", "o", " ", "C", "e", "n", "t", "r", "e">>)
    @@ (COL_AGE :> <<"2", "6", " ", EN_DASH, " ", "4", "0">>)
    @@ (COL_DUR :> <<"M", "o", "r", "e", " ", "t", "h", "a", "n", " ", "1", "0", " ", "y", "e",
          "a", "r", "s">>)
    @@ (COL_FLOOR :> <<"H", "i", "g", "h", " ", "R", "i", "s", "e", " ", "(", "F", "l", "o",
          "o", "r", "s", " ", "1", "1", "+", ")">>)
    @@ (COL_Q4 :> <<"9">>)
    @@ (COL_Q5 :> <<"C", "o", "n", "s", "t", "r", "u", "c", "t", "i", "o", "n", " ", "/", " ",
          "R", "e", "n", "o", "v", "a", "t", "i", "o", "n">>)
    @@ (COL_Q6 :> <<"Y", "e", "s">>)
    @@ (COL_Q7 :> <<"S", "e", "v", "e", "r", "e", "l", "y", " ", "a", "f", "f", "e", "c", "t",
          "s", " ", "r", "e", "s", "t", " ", "q", "u", "a", "l", "i", "t", "y">>)
    @@ (COL_Q8 :> <<"2">>)
    @@ (COL_Q9 :> <<>>)
    @@ (COL_Q10 :> <<"N", "o">>)
    @@ (COL_Q11 :> <<"R", "e", "d", "u", "c", "e", "s", " ", "s", "i", "g", "n", "i", "f", "i",
          "c", "a", "n", "t", "l", "y">>)

\* a respondent who left site, noise sources, air quality and quality of life blank
RespondentD ==
    (COL_SITE :> <<>>)
    @@ (COL_AGE :> <<"4", "1", " ", EN_DASH, " ", "5", "9">>)
    @@ (COL_DUR :> <<"5", " ", "-", " ", "1", "0", " ", "y", "e", "a", "r", "s">>)
    @@ (COL_FLOOR :> <<"M", "i", "d", " ", "R", "i", "s", "e", " ", "(", "F", "l", "o", "o",
          "r", "s", " ", "6", EN_DASH, "1", "0", ")">>)
    @@ (COL_Q4 :> <<"7">>)
    @@ (COL_Q5 :> <<>>)
    @@ (COL_Q6 :> <<>>)
    @@ (COL_Q7 :> <<"S", "l", "i", "g", "h", "t", "l", "y", " ", "d", "i", "s", "t", "r", "a",
          "c", "t", "i", "n", "g">>)
    @@ (COL_Q8 :> <<>>)
    @@ (COL_Q9 :> <<>>)
    @@ (COL_Q10 :> <<"N", "e", "u", "t", "r", "a", "l">>)
    @@ (COL_Q11 :> <<>>)

\* a respondent of Waterloo Centre who answered little else
RespondentE ==
    (COL_SITE :> <<"W", "a", "t", "e", "r", "l", "o", "o", " ", "C", "e", "n", "t", "r", "e">>)
    @@ (COL_AGE :> <<>>)
    @@ (COL_DUR :> <<>>)
    @@ (COL_FLOOR :> <<"L", "o", "w", " ", "R", "i", "s", "e", " ", "(", "F", "l", "o", "o",
          "r", "s", " ", "1", EN_DASH, "5", ")">>)
    @@ (COL_Q4 :> <<"4">>)
    @@ (COL_Q5 :> <<"T", "r", "a", "f", "f", "i", "c">>)
    @@ (COL_Q6 :> <<"N", "o">>)
    @@ (COL_Q7 :> <<>>)
    @@ (COL_Q8 :> <<>>)
    @@ (COL_Q9 :> <<>>)
    @@ (COL_Q10 :> <<>>)
    @@ (COL_Q11 :> <<>>)


Respondents == <<RespondentA, RespondentB, RespondentC, RespondentD, RespondentE>>

\* the surveys: respondents in the order of the list above, any number of times each
Surveys ==
    {s \in SeqsUpTo(1..Len(Respondents), MaxRespondents) :
        s # <<>> /\ \A i \in 1..(Len(s) - 1) : s[i] <= s[i + 1]}

SurveyFile(s) == [header |-> AllColumns, rows |-> [i \in 1..Len(s) |-> Respondents[s[i]]]]

\* rows_out of a run of main that raises nothing
CleanTable(rows) == [i \in 1..Len(rows) |-> CleanRecord(enumerate_start(i - 1), rows[i])]

\* texts pandas.read_csv reads as NaN by default (those a survey answer can be)
NaTexts ==
    { <<>>, <<"N", "A">>, <<"N", "/", "A">>, <<"n", "/", "a">>, <<"n", "a", "n">>,
      <<"N", "a", "N">>, <<"n", "u", "l", "l">>, <<"N", "U", "L", "L">> }

\* pandas.read_csv of one field: a NaN for an NA text, else the number or the text
ReadField(name, text) ==
    IF text \in NaTexts THEN None
    ELSE IF name \in {"respondent_id", "Q6_noise_spike", "age_numeric", "residency_numeric",
                      "floor_numeric", "Q4_noise_rating", "Q7_concentration",
                      "Q8_air_quality", "Q10_community", "Q11_QoL"}
         THEN Some(IntOf(text))
         ELSE Some(text)

ColumnOf(header, name) == CHOOSE j \in 1..Len(header) : header[j] = name

\* pd.read_csv(CSV)
read_csv(file) ==
    [i \in 1..Len(file.rows) |->
        [name \in {file.header[j] : j \in 1..Len(file.header)} |->
            ReadField(name, file.rows[i][ColumnOf(file.header, name)])]]

\* the derived columns of analysis_focused_proof.py; arithmetic on NaN is NaN
Column(row, name) ==
    IF name = "noise_burden" THEN row["Q4_noise_rating"]
    ELSE IF name = "air_burden"
         THEN (IF row["Q8_air_quality"] = None THEN None
               ELSE Some(11 - row["Q8_air_quality"][1]))
    ELSE IF name = "community_burden"
         THEN (IF row["Q10_community"] = None THEN None
               ELSE Some(((2 - row["Q10_community"][1]) * 10) \div 2))
    ELSE row[name]

RECURSIVE SelectIndices(_, _, _)
\* the indices i..Len(frame) of the rows with no NaN in the columns cols
SelectIndices(frame, cols, i) ==
    IF i > Len(frame) THEN <<>>
    ELSE (IF \A c \in cols : Column(frame[i], c) # None THEN <<i>> ELSE <<>>)
             \o SelectIndices(frame, cols, i + 1)

\* df[cols].dropna(): the rows kept, by position in df
dropna(frame, cols) == SelectIndices(frame, cols, 1)

\* sub[name]: the values of one column over the rows kept
Values(frame, idx, name) == [k \in 1..Len(idx) |-> Column(frame[idx[k]], name)[1]]

IsConstant(xs) == \A i, j \in 1..Len(xs) : xs[i] = xs[j]

\* (rho, p) of a sample on which the coefficient is defined: a strong positive
\* significant one and a weak negative non-significant one stand for all
CorrSamples ==
    { <<<<(8 * Scale) \div 10>>, <<0>>>>, <<<<0 - (Scale \div 10)>>, <<Scale \div 2>>>> }

\* scipy.stats.spearmanr(x, y): nan for fewer than two observations and for a
\* constant input; +1 or -1 for two observations; else some coefficient and p
spearmanr(xs, ys) ==
    IF Len(xs) <= 1 \/ IsConstant(xs) \/ IsConstant(ys) THEN {<<NaN, NaN>>}
    ELSE IF Len(xs) = 2
         THEN LET up == (xs[1] < xs[2]) <=> (ys[1] < ys[2])
              IN  {<<(IF up THEN <<Scale>> ELSE <<0 - Scale>>), q>> : q \in {NaN, <<Scale>>}}
         ELSE CorrSamples

\* PAIRS of analysis_2_spearman.py
PAIRS_2 ==
    << <<"Q4_noise_rating", "Q7_concentration">>, <<"Q4_noise_rating", "Q11_QoL">>,
       <<"Q8_air_quality", "Q11_QoL">>, <<"Q4_noise_rating", "Q8_air_quality">> >>

\* PAIRS of analysis_final.py
PAIRS_FINAL ==
    << <<"Q4_noise_rating", "Q7_concentration">>, <<"Q4_noise_rating", "Q11_QoL">>,
       <<"Q8_air_quality", "Q11_QoL">>, <<"Q10_community", "Q11_QoL">> >>

\* corr_pairs of analysis_focused_proof.py
corr_pairs ==
    << <<"noise_burden", "Q11_QoL">>, <<"air_burden", "Q11_QoL">>,
       <<"community_burden", "Q11_QoL">> >>

At(stage, i) == [at |-> stage, i |-> i]

Raise(type) == <<[type |-> type]>>

\* one computed correlation: the rows it used, the result, and what was printed
Correlation(pair, used, res, n, interp, printed) ==
    [ kind |-> "correlation", script |-> script, x |-> pair[1], y |-> pair[2],
      used |-> used, rho |-> res[1], p |-> res[2], n |-> n, interp |-> interp,
      printed |-> printed ]

\* numpy.polyfit raises on an empty sample; on NaN input LAPACK either fails to
\* converge or returns NaN coefficients, depending on the build
PolyfitOutcomes(xs_has_nan, empty) ==
    IF empty THEN {"TypeError"}
    ELSE IF xs_has_nan THEN {"LinAlgError", "ok"}
    ELSE {"ok"}

\* analysis_2_spearman.py: one pass of "for xvar, yvar, title, fname in PAIRS"
Spearman2Pair ==
    /\ script = "analysis_2_spearman"
    /\ apc.at = "PAIRS"
    /\ apc.i <= Len(PAIRS_2)
    /\ LET pair == PAIRS_2[apc.i]
           sub  == dropna(df, {pair[1], pair[2]})
           nan  == \E i \in 1..Len(df) : df[i][pair[1]] = None \/ df[i][pair[2]] = None
       IN  \E res \in spearmanr(Values(df, sub, pair[1]), Values(df, sub, pair[2])) :
           \E fit \in PolyfitOutcomes(nan, FALSE) :
               /\ trace' = Append(trace,
                       Correlation(pair, sub, res, Some(Len(sub)),
                                   Some(interpret(res[1], res[2], Len(sub))), TRUE))
               /\ IF fit = "ok"
                  THEN /\ apc' = (IF apc.i = Len(PAIRS_2) THEN At("findings", 1)
                                  ELSE At("PAIRS", apc.i + 1))
                       /\ UNCHANGED aerror
                  ELSE /\ apc' = At("aborted", apc.i)
                       /\ aerror' = Raise(fit)
    /\ UNCHANGED <<df, script, encoderVars, callVars>>

\* analysis_2_spearman.py: the DETAILED FINDINGS loop over results
Spearman2Findings ==
    /\ script = "analysis_2_spearman"
    /\ apc.at = "findings"
    /\ trace' = Append(trace,
           [ kind |-> "findings", script |-> script,
             order |-> [k \in 1..Len(trace) |-> <<trace[k].x, trace[k].y>>] ])
    /\ apc' = At("done", 1)
    /\ UNCHANGED <<df, script, aerror, encoderVars, callVars>>

\* analysis_final.py: one pass of "for idx, (xv, yv, ...) in enumerate(PAIRS)"
FinalPair ==
    /\ script = "analysis_final"
    /\ apc.at = "PAIRS"
    /\ apc.i <= Len(PAIRS_FINAL)
    /\ LET pair == PAIRS_FINAL[apc.i]
           sub  == dropna(df, {pair[1], pair[2], "site"})
       IN  \E res \in spearmanr(Values(df, sub, pair[1]), Values(df, sub, pair[2])) :
           \E fit \in PolyfitOutcomes(FALSE, sub = <<>>) :
               IF fit = "ok"
               THEN /\ trace' = Append(trace, Correlation(pair, sub, res, None, None, TRUE))
                    /\ apc' = (IF apc.i = Len(PAIRS_FINAL) THEN At("sources", 1)
                               ELSE At("PAIRS", apc.i + 1))
                    /\ UNCHANGED aerror
               ELSE /\ trace' = Append(trace, Correlation(pair, sub, res, None, None, FALSE))
                    /\ apc' = At("aborted", apc.i)
                    /\ aerror' = Raise(fit)
    /\ UNCHANGED <<df, script, encoderVars, callVars>>

\* analysis_focused_proof.py: one pass of "for xvar, yvar, label, col in corr_pairs"
FocusedPair ==
    /\ script = "analysis_focused_proof"
    /\ apc.at = "corr_pairs"
    /\ apc.i <= Len(corr_pairs)
    /\ LET pair == corr_pairs[apc.i]
           sub  == dropna(df, {pair[1], pair[2]})
       IN  \E res \in spearmanr(Values(df, sub, pair[1]), Values(df, sub, pair[2])) :
               /\ trace' = Append(trace, Correlation(pair, sub, res, None, None, TRUE))
               /\ apc' = (IF apc.i = Len(corr_pairs) THEN At("mechanism", 1)
                          ELSE At("corr_pairs", apc.i + 1))
    /\ UNCHANGED <<df, script, aerror, encoderVars, callVars>>

\* analysis_focused_proof.py: the reference correlation of Q4 with Q7
FocusedMechanism ==
    /\ script = "analysis_focused_proof"
    /\ apc.at = "mechanism"
    /\ LET pair == <<"Q4_noise_rating", "Q7_concentration">>
           sub  == dropna(df, {pair[1], pair[2]})
       IN  \E res \in spearmanr(Values(df, sub, pair[1]), Values(df, sub, pair[2])) :
               trace' = Append(trace, Correlation(pair, sub, res, None, None, TRUE))
    /\ apc' = At("done", 1)
    /\ UNCHANGED <<df, script, aerror, encoderVars, callVars>>

-----------------------------------------------------------------------------
(* analysis_3_kruskal_fisher.py: Kruskal-Wallis tests A, B, C, the          *)
(* Mann-Whitney post-hoc sections, and the contingency tests D, E, F.       *)

floor_order ==
    << <<"L", "o", "w", " ", "R", "i", "s", "e", " ", "(", "F", "l", "o", "o", "r", "s", " ", "1", EN_DASH, "5", ")">>,
       <<"M", "i", "d", " ", "R", "i", "s", "e", " ", "(", "F", "l", "o", "o", "r", "s", " ", "6", EN_DASH, "1", "0", ")">>,
       <<"H", "i", "g", "h", " ", "R", "i", "s", "e", " ", "(", "F", "l", "o", "o", "r", "s", " ", "1", "1", "+", ")">> >>

site_order ==
    << <<"W", "a", "t", "e", "r", "l", "o", "o", " ", "C", "e", "n", "t", "r", "e">>,
       <<"C", "h", "e", "n", "g", " ", "Y", "a", "n", " ", "C", "o", "u", "r", "t">>,
       <<"A", "l", "b", "e", "r", "t", " ", "C", "e", "n", "t", "r", "e">>,
       <<"B", "r", "a", "s", " ", "B", "a", "s", "a", "h", " ", "C", "o", "m", "p", "l", "e", "x">> >>

\* p-values standing for a significant and a non-significant test result
PSig == <<0>>
PNs == <<Scale \div 2>>

\* kw_interpret(p, n_groups, n_total)
kw_interpret(p, n_groups, n_total) ==
    [ text   |-> IF LessThan(p, 5, 100) THEN "Significant difference between groups"
                 ELSE "No significant difference",
      caveat |-> IF n_total < SMALL_N THEN Some(n_total) ELSE None ]

\* mwu_interpret(p, g1, g2)
mwu_interpret(p, g1, g2) ==
    [ mark |-> IF LessThan(p, 5, 100) THEN "*" ELSE "ns", p |-> p, g1 |-> g1, g2 |-> g2 ]

\* df[df[by] == label][outcome].dropna().tolist()
GroupValues(by, label, outcome) ==
    LET idx == SelectSeq(dropna(df, {outcome}), LAMBDA i : df[i][by] = Some(label))
    IN  Values(df, idx, outcome)

\* {k: v for k, v in groups.items() if v}
NonEmpty(labels, by, outcome) ==
    SelectSeq(labels, LAMBDA l : GroupValues(by, l, outcome) # <<>>)

RECURSIVE Flatten(_)
Flatten(groups) ==
    IF groups = <<>> THEN <<>> ELSE Head(groups) \o Flatten(Tail(groups))

\* the outcome of a library call: a value returned or an exception raised
Returned(p) == [error |-> "", p |-> p]
Raised(type) == [error |-> type, p |-> NaN]

\* scipy.stats.kruskal(*groups): ValueError with fewer than two groups; nan
\* when a group is empty; when all numbers are identical a ValueError or nan,
\* depending on the scipy version; else a p-value, which is not computed here:
\* a significant and a non-significant one stand for it
kruskal(groups) ==
    IF Len(groups) < 2 THEN {Raised("ValueError")}
    ELSE IF \E g \in 1..Len(groups) : groups[g] = <<>> THEN {Returned(NaN)}
    ELSE IF IsConstant(Flatten(groups)) THEN {Raised("ValueError"), Returned(NaN)}
    ELSE {Returned(PSig), Returned(PNs)}

\* the three Kruskal-Wallis analyses: grouping column, group labels, outcome,
\* whether empty groups are removed, and the group count given to kw_interpret
KW_TESTS ==
    << [name |-> "A", by |-> "floor_level", order |-> floor_order,
        outcome |-> "Q4_noise_rating", drop_empty |-> TRUE],
       [name |-> "B", by |-> "site", order |-> site_order,
        outcome |-> "Q4_noise_rating", drop_empty |-> FALSE],
       [name |-> "C", by |-> "site", order |-> site_order,
        outcome |-> "Q11_QoL", drop_empty |-> FALSE] >>

\* the groups a Kruskal-Wallis analysis passes to the test, by label
GroupLabels(t) ==
    IF t.drop_empty THEN NonEmpty(t.order, t.by, t.outcome) ELSE t.order

Sum(xs) == LET RECURSIVE S(_)
               S(i) == IF i > Len(xs) THEN 0 ELSE xs[i] + S(i + 1)
           IN  S(1)

\* one Kruskal-Wallis section: build the groups, call the test, print the result
KruskalWallis ==
    /\ script = "analysis_3_kruskal_fisher"
    /\ apc.at = "kruskal"
    /\ apc.i <= Len(KW_TESTS)
    /\ LET t      == KW_TESTS[apc.i]
           labels == GroupLabels(t)
           groups == [g \in 1..Len(labels) |-> GroupValues(t.by, labels[g], t.outcome)]
           n      == Sum([g \in 1..Len(groups) |-> Len(groups[g])])
           event(p, printed) ==
               [ kind |-> "kruskal", script |-> script, name |-> t.name,
                 labels |-> labels, groups |-> groups, p |-> p, printed |-> printed,
                 interp |-> IF printed
                            THEN Some(kw_interpret(p, IF t.drop_empty THEN Len(groups) ELSE 4, n))
                            ELSE None ]
       IN  \E res \in kruskal(groups) :
               IF res.error # ""
               THEN /\ trace' = Append(trace, event(NaN, FALSE))
                    /\ apc' = At("aborted", apc.i)
                    /\ aerror' = Raise(res.error)
               ELSE /\ trace' = Append(trace, event(res.p, TRUE))
                    /\ apc' = (IF apc.i = Len(KW_TESTS) THEN At("mannwhitneyu", 2)
                               ELSE At("kruskal", apc.i + 1))
                    /\ UNCHANGED aerror
    /\ UNCHANGED <<df, script, encoderVars, callVars>>

\* list(itertools.combinations(order, 2)), by position
Combinations(n) ==
    LET RECURSIVE From(_, _)
        From(i, j) ==
            IF i >= n THEN <<>>
            ELSE IF j > n THEN From(i + 1, i + 2)
            ELSE <<<<i, j>>>> \o From(i, j + 1)
    IN  From(1, 2)

\* one Mann-Whitney post-hoc section, for the groups of KW_TESTS[apc.i]: the
\* loop over all pairs of sites, testing those with two or more values each
MannWhitneyPostHoc ==
    /\ script = "analysis_3_kruskal_fisher"
    /\ apc.at = "mannwhitneyu"
    /\ LET t     == KW_TESTS[apc.i]
           g(s)  == GroupValues(t.by, site_order[s], t.outcome)
           pairs == SelectSeq(Combinations(Len(site_order)),
                              LAMBDA pr : Len(g(pr[1])) >= 2 /\ Len(g(pr[2])) >= 2)
       IN  \E ps \in [1..Len(pairs) -> {PSig, PNs}] :
               trace' = trace \o
                   [k \in 1..Len(pairs) |->
                       [ kind |-> "mannwhitneyu", script |-> script, name |-> t.name,
                         alternative |-> "two-sided",
                         line |-> mwu_interpret(ps[k], site_order[pairs[k][1]],
                                                site_order[pairs[k][2]]) ]]
    /\ apc' = (IF apc.i = 3 THEN At("fishers", 1) ELSE At("mannwhitneyu", apc.i + 1))
    /\ UNCHANGED <<df, script, aerror, encoderVars, callVars>>

\* q10_labels without the midpoint
q10_labels_yes_no ==
    (0 :> <<"N", "o">>)
    @@ (2 :> <<"Y", "e", "s">>)

\* q10_labels
q10_labels ==
    (0 :> <<"N", "o">>)
    @@ (1 :> <<"M", "a", "y", "b", "e", "/", "N", "e", "u", "t", "r", "a", "l">>)
    @@ (2 :> <<"Y", "e", "s">>)

\* q11_labels
q11_labels ==
    (1 :> <<"I", "m", "p", "r", "o", "v", "e", "s", " ", "s", "i", "g", ".">>)
    @@ (2 :> <<"N", "e", "u", "t", "r", "a", "l">>)
    @@ (3 :> <<"R", "e", "d", "u", "c", "e", "s", " ", "s", "l", ".">>)
    @@ (4 :> <<"R", "e", "d", "u", "c", "e", "s", " ", "s", "i", "g", ".">>)

\* age_labels
age_labels ==
    (1 :> <<"1", "8", EN_DASH, "2", "5">>)
    @@ (2 :> <<"2", "6", EN_DASH, "4", "0">>)
    @@ (3 :> <<"4", "1", EN_DASH, "5", "9">>)
    @@ (4 :> <<"6", "0", "+">>)

\* q7_labels
q7_labels ==
    (1 :> <<"N", "o", "t", " ", "a", "t", " ", "a", "l", "l">>)
    @@ (2 :> <<"N", "e", "u", "t", "r", "a", "l">>)
    @@ (3 :> <<"S", "l", "i", "g", "h", "t", "l", "y">>)
    @@ (4 :> <<"M", "o", "d", "e", "r", "a", "t", "e", "l", "y">>)
    @@ (5 :> <<"H", "i", "g", "h", "l", "y">>)
    @@ (6 :> <<"S", "e", "v", "e", "r", "e", "l", "y">>)

\* dur_labels
dur_labels ==
    (1 :> <<"<", "1", " ", "y", "r">>)
    @@ (2 :> <<"1", EN_DASH, "5", " ", "y", "r", "s">>)
    @@ (3 :> <<"5", EN_DASH, "1", "0", " ", "y", "r", "s">>)
    @@ (4 :> <<">", "1", "0", " ", "y", "r", "s">>)

\* the keys of source_keywords and of source_map
source_keywords ==
    << <<"R", "o", "a", "d", " ", "T", "r", "a", "f", "f", "i", "c", " ", "/", " ", "M", "R", "T">>,
       <<"R", "e", "l", "i", "g", "i", "o", "u", "s", " ", "A", "c", "t", "i", "v", "i", "t", "i", "e", "s">>,
       <<"C", "o", "m", "m", "e", "r", "c", "i", "a", "l", " ", "E", "v", "e", "n", "t", "s">>,
       <<"C", "o", "n", "s", "t", "r", "u", "c", "t", "i", "o", "n", " ", "/", " ", "R", "e", "n", "o", "v", "a", "t", "i", "o", "n">> >>

\* str(float('nan'))
NanText == <<"n", "a", "n">>

\* the characters of the labels, by ascending code point
CodePoints ==
    <<" ", "+", ".", "/">> \o DecimalDigits \o <<"<", ">">> \o UpperLetters
        \o LowerLetters \o <<EN_DASH>>

ord(c) == CHOOSE i \in 1..Len(CodePoints) : CodePoints[i] = c

\* a < b for str: by code point at the first difference, a proper prefix first
StrLess(a, b) ==
    \E k \in 1..Len(b) :
        /\ k <= Len(a) + 1
        /\ \A j \in 1..(k - 1) : a[j] = b[j]
        /\ (k = Len(a) + 1 \/ ord(a[k]) < ord(b[k]))

RECURSIVE SortedLabels(_)
\* the sorted index pandas builds from the labels present
SortedLabels(S) ==
    IF S = {} THEN <<>>
    ELSE LET m == CHOOSE x \in S : \A y \in S \ {x} : StrLess(x, y)
         IN  <<m>> \o SortedLabels(S \ {m})

\* Series.map(labels) of one value: NaN for a value the dict lacks
MapLabel(labels, v) == IF v \in DOMAIN labels THEN Some(labels[v]) ELSE None

\* the three contingency analyses
CT_TESTS ==
    << [name |-> "D", row |-> "Q10_community", row_labels |-> q10_labels,
        col |-> "Q11_QoL", col_labels |-> q11_labels],
       [name |-> "E", row |-> "age_numeric", row_labels |-> age_labels,
        col |-> "Q7_concentration", col_labels |-> q7_labels],
       [name |-> "F", row |-> "residency_numeric", row_labels |-> dur_labels,
        col |-> "Q11_QoL", col_labels |-> q11_labels] >>

\* sub = df[[row, col]].dropna(); the two mapped columns; pd.crosstab of them
crosstab(t) ==
    LET sub    == dropna(df, {t.row, t.col})
        rl(k)  == MapLabel(t.row_labels, df[sub[k]][t.row][1])
        cl(k)  == MapLabel(t.col_labels, df[sub[k]][t.col][1])
        kept   == {k \in 1..Len(sub) : rl(k) # None /\ cl(k) # None}
        rows   == SortedLabels({rl(k)[1] : k \in kept})
        cols   == SortedLabels({cl(k)[1] : k \in kept})
    IN  [ index   |-> rows,
          columns |-> cols,
          values  |-> [r \in 1..Len(rows) |-> [c \in 1..Len(cols) |->
                          Cardinality({k \in kept : rl(k)[1] = rows[r] /\ cl(k)[1] = cols[c]})]] ]

\* scipy.stats.chi2_contingency(ct_arr): ValueError on a table without cells;
\* p = 1 when there are no degrees of freedom; else a p-value, not computed here
chi2_contingency(ct) ==
    IF Len(ct.index) = 0 \/ Len(ct.columns) = 0 THEN {Raised("ValueError")}
    ELSE IF Len(ct.index) = 1 \/ Len(ct.columns) = 1 THEN {Returned(<<Scale>>)}
    ELSE {Returned(PSig), Returned(PNs)}

\* scipy.stats.fisher_exact(ct_arr): a p-value, not computed here
fisher_exact(ct) == {Returned(PSig), Returned(PNs)}

\* run_fishers(ct_df, label): what it calls, prints and returns
run_fishers(ct, name, res) ==
    LET two_by_two == Len(ct.index) = 2 /\ Len(ct.columns) = 2
    IN  [ kind |-> "run_fishers", script |-> script, name |-> name, ct |-> ct,
          test |-> IF two_by_two THEN "fisher_exact" ELSE "chi2_contingency",
          p |-> res.p,
          returned |-> res.error = "",
          oddsratio |-> IF two_by_two THEN Some("oddsratio") ELSE None,
          caution |-> ~two_by_two /\ res.error = "",
          sig |-> IF res.error # "" THEN ""
                  ELSE IF LessThan(res.p, 5, 100) THEN "SIGNIFICANT"
                  ELSE "not significant" ]

\* one contingency section: the crosstab, run_fishers, the heatmap
Fishers ==
    /\ script = "analysis_3_kruskal_fisher"
    /\ apc.at = "fishers"
    /\ apc.i <= Len(CT_TESTS)
    /\ LET t  == CT_TESTS[apc.i]
           ct == crosstab(t)
       IN  \E res \in (IF Len(ct.index) = 2 /\ Len(ct.columns) = 2
                       THEN fisher_exact(ct) ELSE chi2_contingency(ct)) :
               /\ trace' = Append(trace, run_fishers(ct, t.name, res))
               /\ IF res.error # ""
                  THEN /\ apc' = At("aborted", apc.i)
                       /\ aerror' = Raise(res.error)
                  ELSE /\ apc' = (IF apc.i = Len(CT_TESTS) THEN At("done", 1)
                                  ELSE At("fishers", apc.i + 1))
                       /\ UNCHANGED aerror
    /\ UNCHANGED <<df, script, encoderVars, callVars>>

-----------------------------------------------------------------------------
(* The count of main noise sources (Q5) in analysis_1_descriptives.py and  *)
(* analysis_final.py.                                                      *)

\* needle in hay, for str
Contains(hay, needle) ==
    \E s \in 0..(Len(hay) - Len(needle)) :
        \A j \in 1..Len(needle) : hay[s + j] = needle[j]

\* age_order of analysis_1_descriptives.py
age_order ==
    << <<"1", "8", " ", EN_DASH, " ", "2", "5">>,
       <<"2", "6", " ", EN_DASH, " ", "4", "0">>,
       <<"4", "1", " ", EN_DASH, " ", "5", "9">>,
       <<"6", "0", "+">> >>

\* sections 1 to 4 of analysis_1_descriptives.py: the pie and bar charts.  A
\* pie chart of counts that are all zero divides by their sum; whether drawing
\* the resulting NaN wedges raises depends on the matplotlib version.
DescriptiveCharts ==
    /\ script = "analysis_1_descriptives"
    /\ apc.at = "charts"
    /\ LET zero == \A i \in 1..Len(df) :
                       df[i]["age_group"] = None \/ \A a \in 1..Len(age_order) :
                                                             df[i]["age_group"][1] # age_order[a]
       IN  \E raised \in (IF zero THEN {TRUE, FALSE} ELSE {FALSE}) :
               IF raised
               THEN /\ apc' = At("aborted", 1)
                    /\ aerror' = Raise("ValueError")
               ELSE /\ apc' = At("sources", 1)
                    /\ UNCHANGED aerror
    /\ UNCHANGED <<df, script, trace, encoderVars, callVars>>

\* counts after the loop over the answers searched
CountSources(texts) ==
    [k \in 1..Len(source_keywords) |->
        Cardinality({i \in 1..Len(texts) :
            Contains(lower(texts[i]), lower(source_keywords[k]))})]

SourceCounts(counts, completed) ==
    [kind |-> "sources", script |-> script, counts |-> counts, completed |-> completed]

\* analysis_1_descriptives.py: "for src in df[...]: ... if key.lower() in src.lower()";
\* a NaN is a float and has no lower()
DescriptiveSources ==
    /\ script = "analysis_1_descriptives"
    /\ apc.at = "sources"
    /\ LET answered(i) == df[i]["Q5_noise_sources"] # None
           first_nan   == CHOOSE i \in 1..Len(df) :
                              ~answered(i) /\ \A j \in 1..(i - 1) : answered(j)
           text(i)     == df[i]["Q5_noise_sources"][1]
       IN  IF \E i \in 1..Len(df) : ~answered(i)
           THEN /\ trace' = Append(trace, SourceCounts(CountSources([i \in 1..(first_nan - 1) |-> text(i)]), FALSE))
                /\ apc' = At("aborted", first_nan)
                /\ aerror' = Raise("AttributeError")
           ELSE /\ trace' = Append(trace, SourceCounts(CountSources([i \in 1..Len(df) |-> text(i)]), TRUE))
                /\ apc' = At("done", 1)
                /\ UNCHANGED aerror
    /\ UNCHANGED <<df, script, encoderVars, callVars>>

\* analysis_final.py: "... if key.lower() in str(src).lower()"
FinalSources ==
    /\ script = "analysis_final"
    /\ apc.at = "sources"
    /\ LET text(i) == IF df[i]["Q5_noise_sources"] = None THEN NanText
                      ELSE df[i]["Q5_noise_sources"][1]
       IN  trace' = Append(trace, SourceCounts(CountSources([i \in 1..Len(df) |-> text(i)]), TRUE))
    /\ apc' = At("summary", 1)
    /\ UNCHANGED <<df, script, aerror, encoderVars, callVars>>

-----------------------------------------------------------------------------
(* The RESULT SUMMARY of analysis_final.py: the records of rho_records     *)
(* through sorted(), as CPython sorts a short list: the initial run, then  *)
(* binary insertion of the rest.  A comparison with nan is false.          *)

\* a < b for float keys
KeyLess(a, b) == a # NaN /\ b # NaN /\ a[1] < b[1]

Reverse(s) == [i \in 1..Len(s) |-> s[Len(s) + 1 - i]]

\* count_run: whether the list starts with a strictly descending run, and
\* the length of its initial run
count_run(keys) ==
    IF Len(keys) < 2 THEN [n |-> Len(keys), descending |-> FALSE]
    ELSE LET descending == KeyLess(keys[2], keys[1])
             n == CHOOSE m \in 2..Len(keys) :
                      /\ \A i \in 3..m : KeyLess(keys[i], keys[i - 1]) = descending
                      /\ m = Len(keys) \/ KeyLess(keys[m + 1], keys[m]) # descending
         IN  [n |-> n, descending |-> descending]

RECURSIVE BinaryPlace(_, _, _, _, _)
\* binarysort's search for the place of the pivot among order[l+1..r]
BinaryPlace(keys, order, pivot, l, r) ==
    IF l >= r THEN l
    ELSE LET p == l + ((r - l) \div 2)
         IN  IF KeyLess(keys[pivot], keys[order[p + 1]])
             THEN BinaryPlace(keys, order, pivot, l, p)
             ELSE BinaryPlace(keys, order, pivot, p + 1, r)

RECURSIVE binarysort(_, _, _)
\* binarysort: order[1..start-1] is sorted; insert the others one by one
binarysort(keys, order, start) ==
    IF start > Len(order) THEN order
    ELSE LET pivot == order[start]
             l     == BinaryPlace(keys, order, pivot, 0, start - 1)
         IN  binarysort(keys,
                        SubSeq(order, 1, l) \o <<pivot>> \o SubSeq(order, l + 1, start - 1)
                            \o SubSeq(order, start + 1, Len(order)),
                        start + 1)

\* sorted(records, key=...): the positions of the records in sorted order
sorted(keys) ==
    LET run   == count_run(keys)
        first == [i \in 1..run.n |-> i]
    IN  binarysort(keys,
                   (IF run.descending THEN Reverse(first) ELSE first)
                       \o [i \in 1..(Len(keys) - run.n) |-> run.n + i],
                   run.n + 1)

\* analysis_final.py: "for lbl, grp, rho, p, _ in sorted(rho_records, key=lambda x: -abs(x[2]))"
FinalSummary ==
    /\ script = "analysis_final"
    /\ apc.at = "summary"
    /\ LET recs  == SelectSeq(trace, LAMBDA e : e.kind = "correlation")
           keys  == [j \in 1..Len(recs) |->
                        IF recs[j].rho = NaN THEN NaN ELSE <<0 - Abs(recs[j].rho[1])>>]
           order == sorted(keys)
       IN  trace' = Append(trace,
               [ kind |-> "summary", script |-> script,
                 order |-> [j \in 1..Len(order) |-> <<recs[order[j]].x, recs[order[j]].y>>] ])
    /\ apc' = At("done", 1)
    /\ UNCHANGED <<df, script, aerror, encoderVars, callVars>>

Scripts ==
    { "analysis_1_descriptives", "analysis_2_spearman", "analysis_3_kruskal_fisher",
      "analysis_final", "analysis_focused_proof" }

\* where each script starts
StartOf(s) ==
    IF s = "analysis_1_descriptives" THEN At("charts", 1)
    ELSE IF s = "analysis_3_kruskal_fisher" THEN At("kruskal", 1)
    ELSE IF s = "analysis_focused_proof" THEN At("corr_pairs", 1)
    ELSE At("PAIRS", 1)

\* create_clean_csv.py has run on a survey and written survey_clean.csv; one
\* of the analysis scripts has read it
InitAnalysis ==
    /\ raw \in {SurveyFile(s) : s \in Surveys}
    /\ pos = Len(raw.rows)
    /\ rows_out = CleanTable(raw.rows)
    /\ pc = "done"
    /\ out = WrittenFile(FieldNames, rows_out)
    /\ error = NoError
    /\ written = <<out>>
    /\ call = NoCall
    /\ ret = <<>>
    /\ df = read_csv(out[1])
    /\ script \in Scripts
    /\ apc = StartOf(script)
    /\ trace = <<>>
    /\ aerror = NoError

NextAnalysis ==
    \/ Spearman2Pair
    \/ Spearman2Findings
    \/ FinalPair
    \/ FocusedPair
    \/ FocusedMechanism
    \/ KruskalWallis
    \/ MannWhitneyPostHoc
    \/ Fishers
    \/ DescriptiveCharts
    \/ DescriptiveSources
    \/ FinalSources
    \/ FinalSummary

SpecAnalysis == InitAnalysis /\ [][NextAnalysis]_vars

-----------------------------------------------------------------------------
(* Properties of the correlation analyses.                                 *)

Correlations == {k \in 1..Len(trace) : trace[k].kind = "correlation"}

\* the values a correlation was computed on
UsedValues(k, name) == Values(df, trace[k].used, name)

\* C12: a correlation analysis with fewer than 3 records having both fields
\* non-missing does not call the Spearman computation, so every coefficient
\* that was computed was computed on at least 3 records.
C12_NoCoefficientBelowThree ==
    \A k \in Correlations : Len(trace[k].used) >= 3

\* one field of the correlation has no value, or the same value in every record used
Degenerate(k) ==
    \/ trace[k].used = <<>>
    \/ IsConstant(UsedValues(k, trace[k].x))
    \/ IsConstant(UsedValues(k, trace[k].y))

\* C13: when all values of one field of a correlation are missing or all
\* equal, no ordinary finding is reported from the undefined coefficient:
\* neither the coefficient is printed nor an interpretation is made of it.
C13_NoFindingFromUndefined ==
    \A k \in Correlations :
        Degenerate(k) => ~trace[k].printed /\ trace[k].interp = None

\* the records of the clean table with both fields present, by position
BothPresent(x, y) == SelectIndices(rows_out, {x, y}, 1)

\* C14: the rows a correlation of A and B uses are exactly the records with
\* both A and B non-missing, and their count is the sample size passed to
\* the interpretation and reported with the coefficient.
C14_RowsAreBothPresent ==
    \A k \in Correlations :
        trace[k].script \in {"analysis_2_spearman", "analysis_final"} =>
            /\ trace[k].used = BothPresent(trace[k].x, trace[k].y)
            /\ trace[k].n = Some(Len(trace[k].used))

-----------------------------------------------------------------------------
(* Properties of the group-difference and contingency analyses.            *)

Events(kind) == {k \in 1..Len(trace) : trace[k].kind = kind}

\* C15: every Kruskal-Wallis test is invoked on groups from which the groups
\* with no non-missing outcome value were removed, and only with at least 2
\* such groups.
C15_TestOnNonEmptyGroups ==
    \A k \in Events("kruskal") :
        /\ \A g \in 1..Len(trace[k].groups) : trace[k].groups[g] # <<>>
        /\ Len(trace[k].groups) >= 2

\* the post-hoc sections of analysis_3_kruskal_fisher.py are over
PostHocOver ==
    /\ script = "analysis_3_kruskal_fisher"
    /\ apc.at \in {"fishers", "done"}

\* the Mann-Whitney tests reported for one grouping and one pair of its groups
PairTests(name, g1, g2) ==
    {m \in Events("mannwhitneyu") :
        /\ trace[m].name = name
        /\ trace[m].alternative = "two-sided"
        /\ {trace[m].line.g1, trace[m].line.g2} = {g1, g2}}

\* C16: once the post-hoc sections are over, every Kruskal-Wallis analysis
\* with more than 2 groups and p < 0.05, the floor-level one included, has
\* exactly one two-sided Mann-Whitney test reported for every pair of its
\* groups that both have at least 2 observations.
C16_PairwiseAfterSignificant ==
    PostHocOver =>
        \A k \in Events("kruskal") :
            Len(trace[k].groups) > 2 /\ LessThan(trace[k].p, 5, 100) =>
                \A a, b \in 1..Len(trace[k].groups) :
                    a < b /\ Len(trace[k].groups[a]) >= 2 /\ Len(trace[k].groups[b]) >= 2 =>
                        Cardinality(PairTests(trace[k].name, trace[k].labels[a],
                                              trace[k].labels[b])) = 1

Shape(ct) == <<Len(ct.index), Len(ct.columns)>>

\* C17: a contingency analysis uses Fisher's exact test and reports an odds
\* ratio exactly when the table is 2x2; for every other shape it uses the
\* chi-square test, returns no odds ratio and prints the caution; both label
\* the result significant exactly when p < 0.05.
C17_FisherExactlyForTwoByTwo ==
    \A k \in Events("run_fishers") :
        LET e == trace[k]
        IN  /\ Shape(e.ct) = <<2, 2>> =>
                   e.test = "fisher_exact" /\ e.oddsratio # None /\ e.returned
            /\ Shape(e.ct) # <<2, 2>> =>
                   e.test = "chi2_contingency" /\ e.oddsratio = None /\ e.caution /\ e.returned
            /\ e.sig = IF LessThan(e.p, 5, 100) THEN "SIGNIFICANT" ELSE "not significant"

\* the contingency analysis an event reports
TestOf(e) == CT_TESTS[CHOOSE i \in 1..Len(CT_TESTS) : CT_TESTS[i].name = e.name]

\* the records of the clean table with both fields of a contingency analysis present
Complete(t) == {i \in 1..Len(rows_out) : rows_out[i][t.row] # None /\ rows_out[i][t.col] # None}

RowTotal(ct, r) == Sum(ct.values[r])

ColumnTotal(ct, c) == Sum([r \in 1..Len(ct.index) |-> ct.values[r][c]])

\* C18: in every contingency table the cells sum to the number of records
\* with both fields non-missing, each row total is the number of such records
\* of the row's category and each column total the number of the column's.
C18_TotalsAreCounts ==
    \A k \in Events("run_fishers") :
        LET ct == trace[k].ct
            t  == TestOf(trace[k])
        IN  /\ Sum([r \in 1..Len(ct.index) |-> RowTotal(ct, r)]) = Cardinality(Complete(t))
            /\ \A r \in 1..Len(ct.index) :
                   RowTotal(ct, r) = Cardinality({i \in Complete(t) :
                       MapLabel(t.row_labels, rows_out[i][t.row][1]) = Some(ct.index[r])})
            /\ \A c \in 1..Len(ct.columns) :
                   ColumnTotal(ct, c) = Cardinality({i \in Complete(t) :
                       MapLabel(t.col_labels, rows_out[i][t.col][1]) = Some(ct.columns[c])})

\* a table of at least two rows and two columns with a cell counting two records
C18_Witness ==
    \E k \in Events("run_fishers") :
        /\ Len(trace[k].ct.index) >= 2
        /\ Len(trace[k].ct.columns) >= 2
        /\ \E r \in 1..Len(trace[k].ct.index), c \in 1..Len(trace[k].ct.columns) :
               trace[k].ct.values[r][c] = 2
        /\ Cardinality(Complete(TestOf(trace[k]))) < Len(rows_out)

\* the code a label stands for
CodeOf(labels, label) == CHOOSE v \in DOMAIN labels : labels[v] = label

Ascending(codes) == \A i, j \in 1..Len(codes) : i < j => codes[i] < codes[j]

\* C19: the rows and the columns of every contingency table are in the
\* ordinal order of their field's codes, whatever the labels' alphabetical order.
C19_OrdinalOrder ==
    \A k \in Events("run_fishers") :
        LET ct == trace[k].ct
            t  == TestOf(trace[k])
        IN  /\ Ascending([r \in 1..Len(ct.index) |-> CodeOf(t.row_labels, ct.index[r])])
            /\ Ascending([c \in 1..Len(ct.columns) |-> CodeOf(t.col_labels, ct.columns[c])])

\* the respondents whose answer to Q5, as encoded, holds the keyword
Naming(keyword) ==
    {i \in 1..Len(rows_out) :
        Contains(lower(rows_out[i]["Q5_noise_sources"]), lower(keyword))}

\* C20: the count of main noise sources completes for every clean table,
\* blank answers included, and each of the four counts is the number of
\* respondents whose answer holds the category's keyword in any letter case,
\* which lies between 0 and the number of respondents.
C20_SourcesCounted ==
    \A k \in Events("sources") :
        /\ trace[k].completed
        /\ \A c \in 1..Len(source_keywords) :
               /\ trace[k].counts[c] = Cardinality(Naming(source_keywords[c]))
               /\ trace[k].counts[c] \in 0..Len(rows_out)

-----------------------------------------------------------------------------
(* Properties of a whole analysis run.                                     *)

\* the analysis lacks the minimum data its test needs
LacksData(e) ==
    IF e.kind = "kruskal" THEN Cardinality({g \in 1..Len(e.groups) : e.groups[g] # <<>>}) < 2
    ELSE IF e.kind = "correlation" THEN Len(e.used) < 3
    ELSE IF e.kind = "run_fishers" THEN e.ct.index = <<>> \/ e.ct.columns = <<>>
    ELSE FALSE

\* the run ended in the analysis of trace[k]: an exception left it uncaught
EndedRun(k) == k = Len(trace) /\ aerror # NoError

\* C21: an analysis that lacks the minimum data its test needs does not end
\* the run: the analyses after it are still executed and reported.
C21_LackOfDataNotFatal ==
    \A k \in 1..Len(trace) : LacksData(trace[k]) => ~EndedRun(k)

\* the pairs a script requests, in the order of its PAIRS list
Requested(s) ==
    IF s = "analysis_2_spearman" THEN PAIRS_2
    ELSE IF s = "analysis_final" THEN PAIRS_FINAL
    ELSE corr_pairs \o << <<"Q4_noise_rating", "Q7_concentration">> >>

\* C22: the result records of a run are emitted in the order of the PAIRS
\* list, in the loop that computes them and in every later section that lists
\* them (DETAILED FINDINGS, RESULT SUMMARY), whatever the coefficients are.
C22_RequestedOrder ==
    /\ LET recs == SelectSeq(trace, LAMBDA e : e.kind = "correlation")
       IN  \A j \in 1..Len(recs) : <<recs[j].x, recs[j].y>> = Requested(script)[j]
    /\ \A k \in Events("findings") \cup Events("summary") :
           \A j \in 1..Len(trace[k].order) : trace[k].order[j] = Requested(script)[j]

\* C23: every correlation coefficient that is reported is a number in the
\* closed interval [-1, 1], also when a field is constant over the rows used.
C23_CoefficientInUnitInterval ==
    \A k \in Correlations :
        trace[k].printed => trace[k].rho # NaN /\ Abs(trace[k].rho[1]) <= Scale

-----------------------------------------------------------------------------
(* Further properties of interpret and of the encoder.                     *)

\* C24: the direction label is "positive" exactly when the coefficient is
\* greater than 0, and "negative" for every other coefficient, 0 included.
C24_DirectionBySign ==
    InterpretReturned =>
        /\ ret[1].direction \in {"positive", "negative"}
        /\ ret[1].direction = "positive" <=> (call.rho # NaN /\ call.rho[1] > 0)

\* interpret has labelled a coefficient of exactly 0 as negative
C24_Witness ==
    /\ InterpretReturned
    /\ call.rho = <<0>>
    /\ ret[1].direction = "negative"

\* C25: every run of the encoder on the same raw records leaves the same
\* file, field for field and in the same column order, and that file holds
\* the encoding of each raw record by the fixed tables alone: nothing of an
\* earlier run, of an earlier file or of an earlier record enters it.
C25_SameOutputEveryRun ==
    /\ \A i, j \in 1..Len(written) : written[i] = written[j]
    /\ \A i \in 1..Len(written) : written[i] = WrittenFile(FieldNames, CleanTable(raw.rows))
    /\ pc = "done" => out = written[Len(written)]

\* the encoder has run twice on a raw file of two records
C25_Witness ==
    /\ Len(written) = 2
    /\ pc = "done"
    /\ Len(raw.rows) = 2
    /\ Len(out[1].rows) = 2
    /\ out[1].rows[1] # out[1].rows[2]

Maybe == <<"m", "a", "y", "b", "e">>

Neutral == <<"n", "e", "u", "t", "r", "a", "l">>

\* the call encodes an answer to the community-connection question
CommunityEncoded == EncodeReturned /\ call.mapping = COMMUNITY_MAP

\* C26: "Maybe" and "Neutral", in any letter case and between any whitespace,
\* are encoded to the same code, the midpoint 1; "No" is encoded to 0 and
\* every "Yes" answer of the table to 2.
C26_MaybeIsMidpoint ==
    CommunityEncoded =>
        /\ IsVariantOf(call.val, Maybe) \/ IsVariantOf(call.val, Neutral) => ret[1] = Some(1)
        /\ IsVariantOf(call.val, <<"n", "o">>) => ret[1] = Some(0)
        /\ \A k \in DOMAIN COMMUNITY_MAP :
               (k[1] = "y" /\ IsVariantOf(call.val, k)) => ret[1] = Some(2)
        /\ encode(Maybe, COMMUNITY_MAP, None) = encode(Neutral, COMMUNITY_MAP, None)

\* "MAYBE" between whitespace has been encoded to 1
C26_Witness ==
    /\ CommunityEncoded
    /\ call.val = <<" ">> \o upper(Maybe) \o <<"\t">>
    /\ ret[1] = Some(1)

\* the Kruskal-Wallis result of a grouping and outcome
OmnibusOf(name) == trace[CHOOSE k \in Events("kruskal") : trace[k].name = name]

\* C27: a Mann-Whitney post-hoc test of a site grouping is computed and
\* printed only when the Kruskal-Wallis test of the same grouping and outcome
\* was significant (p < 0.05).
C27_PostHocOnlyAfterSignificant ==
    \A m \in Events("mannwhitneyu") : LessThan(OmnibusOf(trace[m].name).p, 5, 100)

====
